---- MODULE Spec2Model ----
(***************************************************************************)
(* Model of maptiler-cloud-cli, src/maptiler/cloud_cli/base.py:            *)
(* the resumable upload (upload_to_google_drive), the multipart upload     *)
(* (upload_to_s3) and Client.process_ingest.                               *)
(*                                                                         *)
(* Sizes are scaled: a "byte" is one element of a sequence, chunk_size and *)
(* the read buffer are a few bytes long instead of 10 MiB and 8 MiB.       *)
(* Optional values (Python's None) are sequences of length 0 or 1:         *)
(* None == <<>>, a value v is <<v>>.  Text that the code parses or formats *)
(* (the Range header) is a sequence of one-character strings.              *)
(***************************************************************************)
EXTENDS Integers, Sequences, FiniteSets, TLC

VARIABLES
    file,        \* the bytes of the container file on disk
    file_size,   \* file.stat().st_size as measured at the start of the upload
    pc,          \* position of upload_to_google_drive
    retries,     \* upload_to_google_drive: retries
    offset,      \* upload_to_google_drive: offset (None or an integer)
    chunk,       \* upload_to_google_drive: chunk (None or bytes)
    request,     \* the last PUT sent by upload_to_google_drive
    response,    \* the last response received by upload_to_google_drive
    slept,       \* the timeouts passed to sleep(), in order
    nput,        \* number of PUTs sent by upload_to_google_drive
    failures,    \* retryable responses handled since the start or the last 308
    exc,         \* the exception that ended upload_to_google_drive, "" if none
    confirmed,   \* the offset after the last range a 308 confirmed, 0 before any
    upload,      \* upload_to_s3: the S3Upload plan (part_size, parts)
    s3pc,        \* position of upload_to_s3
    done,        \* upload_to_s3: parts of sorted(upload.parts) already uploaded
    parts,       \* upload_to_s3: parts, the S3UploadResultPart list
    s3request,   \* the last PUT of upload_to_s3: url, Content-Length, body
    s3response,  \* the last response of the part's destination
    total,       \* urllib3 Retry.total left for the request in progress
    sent,        \* every PUT that upload_to_s3 issued, in order
    answered,    \* the response http.request returned for each of them
    s3exc,       \* the exception that ended upload_to_s3, "" if none
    upload_result, \* process_ingest: upload_result (None or a list of parts)
    ppc,         \* position of Client.process_ingest
    posts,       \* the JSON bodies POSTed to /v1/tiles/ingest/{id}/process
    presponse,   \* the response to the POST of process_ingest
    perror,      \* the ClientError raised by process_ingest, None if none
    document_id, \* ingest_tiles: --document-id (None or an id)
    ipc,         \* position of ingest_tiles
    ingest,      \* ingest_tiles: ingest, the IngestResponse held (None before)
    cresponse,   \* the response of the service to the POST of create_ingest
    iresponse,   \* the last response of the service to the GET of ingest
    create_url,  \* the URL create_ingest POSTed to (None before)
    delay,       \* ingest_tiles: delay
    gets,        \* number of GETs of /v1/tiles/ingest/{id} sent
    psleeps,     \* the delays ingest_tiles slept in its polling loop, in order
    observed,    \* states returned by process_ingest and ingest so far that
                 \* are none of completed, canceled, failed
    stderr,      \* the lines echoed with err=True
    cerror,      \* the ClientError create_ingest or ingest raised, None if none
    outcome      \* how ingest_tiles ended: "" while running, "returned",
                 \* "Abort" or the name of an uncaught exception

fileVars == <<file, file_size>>

gdVars == <<pc, retries, offset, chunk, request, response, slept, nput,
            failures, exc, confirmed>>

s3Vars == <<upload, s3pc, done, parts, s3request, s3response, total, sent,
            answered, s3exc>>

procVars == <<upload_result, ppc, posts, presponse, perror>>

ingestVars == <<document_id, ipc, ingest, cresponse, iresponse, create_url, delay, gets,
                psleeps, observed, stderr, cerror, outcome>>

vars == <<fileVars, gdVars, s3Vars, procVars, ingestVars>>

----------------------------------------------------------------------------
(* Bounds of the model *)

MaxFileSize == 3
MaxPuts == 9
MaxPartSize == 3
MaxParts == 3
MaxPolls == 58
IngestMaxPuts == 2
IngestMaxPolls == 3
ShrinkMaxPuts == 3
ShrinkPartSize == 2
PollMaxPuts == 1

(* chunk_size = 10 * 1024 * 1024 in the source, scaled to 2 bytes *)
chunk_size == 2

(* len(buffer) = 8 * 1024 * 1024 in the source, scaled to 2 bytes *)
buffer_len == 2

----------------------------------------------------------------------------
(* Python values *)

None == <<>>
Some(v) == <<v>>
IsNone(o) == o = <<>>
Val(o) == o[1]

Min(a, b) == IF a <= b THEN a ELSE b

(* The container: byte k (0-based) has the value k + 1, so that a slice    *)
(* tells where it was read from.                                           *)
FileOf(n) == [i \in 1..n |-> i]

(* fp.seek(pos); fp.read(n): the bytes [pos, pos + n) that exist in f;     *)
(* seeking past the end is allowed and the read is then empty.             *)
ReadAt(f, pos, n) ==
    IF pos >= Len(f) THEN <<>> ELSE SubSeq(f, pos + 1, Min(pos + n, Len(f)))

----------------------------------------------------------------------------
(* Text: decimal digits, str(int) and int(str) *)

DigitChars == <<"0", "1", "2", "3", "4", "5", "6", "7", "8", "9">>
Digit == {DigitChars[i] : i \in 1..10}
DigitValue(c) == (CHOOSE i \in 1..10 : DigitChars[i] = c) - 1

RECURSIVE str(_)
str(n) == IF n < 10 THEN <<DigitChars[n + 1]>>
          ELSE str(n \div 10) \o <<DigitChars[(n % 10) + 1]>>

RECURSIVE int(_)
int(s) == IF Len(s) = 0 THEN 0
          ELSE 10 * int(SubSeq(s, 1, Len(s) - 1)) + DigitValue(s[Len(s)])

IsDigits(s) == Len(s) > 0 /\ \A i \in 1..Len(s) : s[i] \in Digit

BytesEq == <<"b", "y", "t", "e", "s", "=">>

(* a variant of DashOf that lets the digits after the "-" be missing *)
DashOf_open(text) ==
    {k \in 8..Len(text) :
        /\ SubSeq(text, 1, 6) = BytesEq
        /\ text[k] = "-"
        /\ IsDigits(SubSeq(text, 7, k - 1))
        /\ \A i \in (k + 1)..Len(text) : text[i] \in Digit}

(* re.fullmatch(r"bytes=\d+-(\d+)", text): the positions of the "-" that   *)
(* split text into bytes=<digits>-<digits>; empty when there is no match.  *)
DashOf(text) ==
    {k \in 8..(Len(text) - 1) :
        /\ SubSeq(text, 1, 6) = BytesEq
        /\ text[k] = "-"
        /\ IsDigits(SubSeq(text, 7, k - 1))
        /\ IsDigits(SubSeq(text, k + 1, Len(text)))}

fullmatch(text) == DashOf(text) # {}

(* match.group(1) *)
group1(text) == LET k == CHOOSE k \in DashOf(text) : TRUE
                IN SubSeq(text, k + 1, Len(text))

----------------------------------------------------------------------------
(* upload_to_google_drive *)

(* The statuses the upload destination answers with, and its Range header  *)
Statuses == {200, 201, 204, 304, 308, 400, 403, 404, 500, 503, 600}

RangeTexts ==
    {BytesEq \o <<"0", "-">> \o str(b) : b \in 0..MaxFileSize}
        \cup {BytesEq \o <<"0", "-", "0", "1">>,
              BytesEq \o <<"0", "-">>,
              <<"b", "y", "t", "e", "s", " ", "0", "-", "1">>}

Responses ==
    [status_code : Statuses \ {308}, Range : {None}]
        \cup [status_code : {308}, Range : {None} \cup {Some(t) : t \in RangeTexts}]

NoResponse == [status_code |-> 0, Range |-> None]
NoRequest == [ContentRange |-> [form |-> "none"], data |-> None]

(* "bytes {}-{}/{}".format(offset, offset + len(chunk) - 1, file_size)     *)
(* when chunk is not None, else "bytes */{}".format(file_size)             *)
ContentRange(off, ch, size) ==
    IF ~IsNone(ch)
    THEN [form |-> "bytes {}-{}/{}", first |-> Val(off),
          last |-> Val(off) + Len(Val(ch)) - 1, total |-> size]
    ELSE [form |-> "bytes */{}", total |-> size]

(* requests.Response.raise_for_status(): raises HTTPError for 4xx and 5xx  *)
raise_for_status(status) == 400 <= status /\ status < 600

(* response.status_code == 403 or response.status_code >= 500 *)
Retryable(status) == status = 403 \/ status >= 500

(* if retries > 5: response.raise_for_status() *)
RetriesExhausted(r) == r > 5

(* a variant of timeout that starts at 2 s: 2**(retries + 1) *)
timeout_doubled(r) == 2 ^ (r + 1)
(* timeout = 2**retries *)
timeout(r) == 2 ^ r

(* a variant of ResumeOffset that resumes at the last confirmed byte *)
ResumeOffset_same(text) == int(group1(text))
(* offset = int(match.group(1)) + 1 *)
ResumeOffset(text) == int(group1(text)) + 1

(* a variant of AfterRetry that keeps the chunk to send it again *)
AfterRetry_keep(off, ch) == [offset |-> off, chunk |-> ch]
(* after the sleep of a retryable failure: offset = None; chunk = None *)
AfterRetry(off, ch) == [offset |-> None, chunk |-> None]

(* The service has not answered yet *)
NoServiceResponse == [status_code |-> 0, errors |-> <<>>, data |-> None]

(* ingest_tiles is not running *)
IngestIdle ==
    /\ document_id = None
    /\ ipc = "idle"
    /\ ingest = None
    /\ cresponse = NoServiceResponse
    /\ iresponse = NoServiceResponse
    /\ create_url = None
    /\ delay = 0
    /\ gets = 0
    /\ psleeps = <<>>
    /\ observed = 0
    /\ stderr = <<>>
    /\ cerror = None
    /\ outcome = ""

NoS3Request == [url |-> 0, ContentLength |-> 0, body |-> <<>>]
NoS3Response == [status |-> 0, ETag |-> None, RetryAfter |-> FALSE]

(* upload_to_s3 is not running *)
S3Idle ==
    /\ upload = [part_size |-> 1, parts |-> <<>>]
    /\ s3pc = "idle"
    /\ done = 0
    /\ parts = <<>>
    /\ s3request = NoS3Request
    /\ s3response = NoS3Response
    /\ total = 0
    /\ sent = <<>>
    /\ answered = <<>>
    /\ s3exc = ""

(* Client.process_ingest is not running *)
ProcessIdle ==
    /\ upload_result = None
    /\ ppc = "idle"
    /\ posts = <<>>
    /\ presponse = NoServiceResponse
    /\ perror = None

(* upload_to_google_drive is not running *)
GDIdle ==
    /\ pc = "idle"
    /\ retries = 0
    /\ offset = None
    /\ chunk = None
    /\ request = NoRequest
    /\ response = NoResponse
    /\ slept = <<>>
    /\ nput = 0
    /\ failures = 0
    /\ exc = ""
    /\ confirmed = 0

GDInit ==
    /\ \E n \in 0..MaxFileSize : file = FileOf(n) /\ file_size = n
    /\ pc = "put"
    /\ retries = 0
    /\ offset = Some(0)
    /\ chunk = Some(ReadAt(file, 0, chunk_size))
    /\ request = NoRequest
    /\ response = NoResponse
    /\ slept = <<>>
    /\ nput = 0
    /\ failures = 0
    /\ exc = ""
    /\ confirmed = 0
    /\ S3Idle
    /\ ProcessIdle
    /\ IngestIdle

(* session.put(url, data=chunk, headers={"Content-Range": range}) *)
Put ==
    /\ UNCHANGED <<s3Vars, procVars, ingestVars>>
    /\ pc = "put"
    /\ nput < MaxPuts
    /\ request' = [ContentRange |-> ContentRange(offset, chunk, file_size),
                   data |-> chunk]
    /\ nput' = nput + 1
    /\ pc' = "response"
    /\ UNCHANGED <<file, file_size, retries, offset, chunk, response, slept,
                   failures, exc, confirmed>>

(* response.status_code in {200, 201}: return *)
Complete ==
    /\ UNCHANGED <<s3Vars, procVars, ingestVars>>
    /\ pc = "response"
    /\ \E r \in Responses :
        /\ r.status_code \in {200, 201}
        /\ response' = r
    /\ pc' = "returned"
    /\ UNCHANGED <<file, file_size, retries, offset, chunk, request, slept,
                   nput, failures, exc, confirmed>>

(* response.status_code == 308 *)
Resume ==
    /\ UNCHANGED <<s3Vars, procVars, ingestVars>>
    /\ pc = "response"
    /\ \E r \in Responses :
        /\ r.status_code = 308
        /\ response' = r
        /\ retries' = 0
        /\ failures' = 0
        /\ IF IsNone(r.Range)
           THEN /\ pc' = "raised" /\ exc' = "KeyError"
                /\ UNCHANGED <<offset, chunk, confirmed>>
           ELSE IF ~fullmatch(Val(r.Range))
           THEN /\ pc' = "raised" /\ exc' = "AttributeError"
                /\ UNCHANGED <<offset, chunk, confirmed>>
           ELSE /\ offset' = Some(ResumeOffset(Val(r.Range)))
                /\ chunk' = Some(ReadAt(file, Val(offset'), chunk_size))
                /\ confirmed' = Val(offset')
                /\ pc' = "put"
                /\ UNCHANGED exc
    /\ UNCHANGED <<file, file_size, request, slept, nput>>

(* response.status_code == 403 or response.status_code >= 500 *)
Retry ==
    /\ UNCHANGED <<s3Vars, procVars, ingestVars>>
    /\ pc = "response"
    /\ \E r \in Responses :
        /\ r.status_code # 308 /\ r.status_code \notin {200, 201}
        /\ Retryable(r.status_code)
        /\ response' = r
        /\ failures' = failures + 1
        /\ IF RetriesExhausted(retries) /\ raise_for_status(r.status_code)
           THEN /\ pc' = "raised" /\ exc' = "HTTPError"
                /\ UNCHANGED <<retries, offset, chunk, slept>>
           ELSE /\ slept' = Append(slept, timeout(retries))
                /\ retries' = retries + 1
                /\ offset' = AfterRetry(offset, chunk).offset
                /\ chunk' = AfterRetry(offset, chunk).chunk
                /\ pc' = "put"
                /\ UNCHANGED exc
    /\ UNCHANGED <<file, file_size, request, nput, confirmed>>

(* else: response.raise_for_status() *)
Other ==
    /\ UNCHANGED <<s3Vars, procVars, ingestVars>>
    /\ pc = "response"
    /\ \E r \in Responses :
        /\ r.status_code # 308 /\ r.status_code \notin {200, 201}
        /\ ~Retryable(r.status_code)
        /\ response' = r
        /\ IF raise_for_status(r.status_code)
           THEN pc' = "raised" /\ exc' = "HTTPError"
           ELSE pc' = "put" /\ UNCHANGED exc
    /\ UNCHANGED <<file, file_size, retries, offset, chunk, request, slept,
                   nput, failures, confirmed>>

GDNext ==
    Put \/ Complete \/ Resume \/ Retry \/ Other

SpecGD == GDInit /\ [][GDNext]_vars

----------------------------------------------------------------------------
(* upload_to_s3 *)

MaxPartId == MaxParts

S3Statuses == {200, 204, 400, 403, 404, 500, 503}
ETags == {"a", "b"}

(* An ETag comes with a success, Retry-After with a 403 or a 503 *)
S3Responses ==
    {r \in [status : S3Statuses, ETag : {None} \cup {Some(e) : e \in ETags},
            RetryAfter : BOOLEAN] :
        /\ r.status >= 400 => IsNone(r.ETag)
        /\ r.RetryAfter => r.status \in {403, 503}}

(* The plans the service may hand out, as lists of part ids: the ids of    *)
(* any set of parts in any order, and a part listed twice.  Part k of the  *)
(* list has url k.                                                         *)
PartLists ==
    {ids \in UNION {[1..n -> 1..MaxPartId] : n \in 0..MaxParts} :
        \/ \A j, k \in 1..Len(ids) : ids[j] = ids[k] => j = k
        \/ Len(ids) = 2 /\ ids[1] = ids[2]}

PlanOf(ids) == [k \in 1..Len(ids) |-> [part_id |-> ids[k], url |-> k]]

(* str(length) for any integer *)
pystr(n) == IF n < 0 THEN <<"-">> \o str(-n) ELSE str(n)

(* a variant of sorted that keeps the order of the plan *)
sorted_asis(ps) == ps

(* sorted(upload.parts, key=attrgetter("part_id")): a stable sort *)
RECURSIVE sorted(_)
sorted(ps) ==
    IF Len(ps) <= 1 THEN ps
    ELSE LET rest == sorted(Tail(ps))
             h == Head(ps)
             k == Cardinality({j \in 1..Len(rest) : rest[j].part_id < h.part_id})
         IN SubSeq(rest, 1, k) \o <<h>> \o SubSeq(rest, k + 1, Len(rest))

(* a variant of lower that takes part ids as 0-based *)
lower_from_id(part_id, part_size) == part_id * part_size

(* lower = (part.part_id - 1) * upload.part_size *)
lower(part_id, part_size) == (part_id - 1) * part_size

(* upper = min(lower + upload.part_size, file_size) *)
upper(lo, part_size, size) == Min(lo + part_size, size)

(* The generator read(length), started with fp at pos: the chunks it       *)
(* yields.  When fp.readinto returns 0 with length > 0 the loop yields     *)
(* empty chunks without end.                                               *)
RECURSIVE read(_, _, _)
read(f, pos, length) ==
    IF length <= 0 THEN [yielded |-> <<>>, endless |-> FALSE]
    ELSE LET target == IF length >= buffer_len THEN buffer_len ELSE length
             data == ReadAt(f, pos, target)
             num_read == Len(data)
         IN IF num_read = 0 THEN [yielded |-> <<>>, endless |-> TRUE]
            ELSE LET more == read(f, pos + num_read, length - num_read)
                 IN [yielded |-> <<data>> \o more.yielded,
                     endless |-> more.endless]

RECURSIVE Concat(_)
Concat(ss) == IF Len(ss) = 0 THEN <<>> ELSE Head(ss) \o Concat(Tail(ss))

(* urllib3: Retry(total=5, backoff_factor=0.5).  status_forcelist is left  *)
(* at its default, the empty set; a response is retried on its status only *)
(* when it carries Retry-After and has one of RETRY_AFTER_STATUS_CODES.    *)
RetryTotal == 5
(* a variant of status_forcelist that retries the statuses of the          *)
(* resumable upload                                                        *)
status_forcelist_5xx == {403, 500, 503}
status_forcelist == {}
RETRY_AFTER_STATUS_CODES == {413, 429, 503}

is_retry(status, has_retry_after, left) ==
    \/ status \in status_forcelist
    \/ (left > 0 /\ has_retry_after /\ status \in RETRY_AFTER_STATUS_CODES)

S3Init ==
    /\ \E n \in 0..MaxFileSize : file = FileOf(n) /\ file_size = n
    /\ GDIdle
    /\ \E ps \in 1..MaxPartSize, ids \in PartLists :
         upload = [part_size |-> ps, parts |-> PlanOf(ids)]
    /\ s3pc = "put"
    /\ done = 0
    /\ parts = <<>>
    /\ s3request = NoS3Request
    /\ s3response = NoS3Response
    /\ total = 0
    /\ sent = <<>>
    /\ answered = <<>>
    /\ s3exc = ""
    /\ ProcessIdle
    /\ IngestIdle

(* fp.seek(lower); http.request("PUT", part.url, Content-Length, read(length)) *)
S3Put ==
    /\ UNCHANGED <<fileVars, gdVars, procVars, ingestVars, upload, done, parts, s3response, answered,
                   s3exc>>
    /\ s3pc = "put"
    /\ done < Len(upload.parts)
    /\ LET part == sorted(upload.parts)[done + 1]
           lo == lower(part.part_id, upload.part_size)
           up == upper(lo, upload.part_size, file_size)
           length == up - lo
           body == read(file, lo, length)
           req == [url |-> part.url, ContentLength |-> pystr(length),
                   body |-> Concat(body.yielded)]
       IN /\ s3request' = req
          /\ sent' = Append(sent, [part_id |-> part.part_id, lower |-> lo,
                                   ContentLength |-> req.ContentLength,
                                   body |-> req.body])
          /\ total' = RetryTotal
          /\ s3pc' = IF body.endless THEN "hang" ELSE "response"

(* urllib3 sends the request again: Retry.is_retry and Retry.increment *)
S3TransportRetry ==
    /\ UNCHANGED <<fileVars, gdVars, procVars, ingestVars, upload, done, parts, s3request, sent,
                   answered>>
    /\ s3pc = "response"
    /\ \E r \in S3Responses :
        /\ is_retry(r.status, r.RetryAfter, total)
        /\ s3response' = r
        /\ IF total > 0
           THEN total' = total - 1 /\ UNCHANGED <<s3pc, s3exc>>
           ELSE s3pc' = "raised" /\ s3exc' = "MaxRetryError" /\ UNCHANGED total

(* if response.status >= 400: raise RuntimeError(...) *)
S3Fail ==
    /\ UNCHANGED <<fileVars, gdVars, procVars, ingestVars, upload, done, parts, s3request, sent, total>>
    /\ s3pc = "response"
    /\ \E r \in S3Responses :
        /\ ~is_retry(r.status, r.RetryAfter, total)
        /\ r.status >= 400
        /\ s3response' = r
        /\ answered' = Append(answered, [url |-> s3request.url, ETag |-> r.ETag])
    /\ s3pc' = "raised"
    /\ s3exc' = "RuntimeError"

(* parts.append(S3UploadResultPart(part_id, response.headers["ETag"])) *)
S3Append ==
    /\ UNCHANGED <<fileVars, gdVars, procVars, ingestVars, upload, s3request, sent, total>>
    /\ s3pc = "response"
    /\ \E r \in S3Responses :
        /\ ~is_retry(r.status, r.RetryAfter, total)
        /\ r.status < 400
        /\ s3response' = r
        /\ answered' = Append(answered, [url |-> s3request.url, ETag |-> r.ETag])
        /\ IF IsNone(r.ETag)
           THEN /\ s3pc' = "raised" /\ s3exc' = "KeyError"
                /\ UNCHANGED <<done, parts>>
           ELSE /\ parts' = Append(parts,
                        [part_id |-> sorted(upload.parts)[done + 1].part_id,
                         etag |-> Val(r.ETag)])
                /\ done' = done + 1
                /\ s3pc' = "put"
                /\ UNCHANGED s3exc

(* return S3UploadResult(parts=parts) *)
S3Return ==
    /\ UNCHANGED <<fileVars, gdVars, procVars, ingestVars, upload, done, parts, s3request, s3response,
                   sent, answered, total, s3exc>>
    /\ s3pc = "put"
    /\ done = Len(upload.parts)
    /\ s3pc' = "returned"

S3Next == S3Put \/ S3TransportRetry \/ S3Fail \/ S3Append \/ S3Return

SpecS3 == S3Init /\ [][S3Next]_vars

----------------------------------------------------------------------------
(* Client.check and Client.process_ingest *)

(* requests.Response.ok: raise_for_status() does not raise *)
ok(status) == ~raise_for_status(status)

(* a variant of check that reports every failure as an internal error *)
check_generic(resp) ==
    IF ok(resp.status_code) THEN None
    ELSE Some([status_code |-> resp.status_code,
               errors |-> <<"Internal server error">>])

(* Client.check(response): None when it returns, else the ClientError *)
check(resp) ==
    IF ok(resp.status_code) THEN None
    ELSE IF 400 <= resp.status_code /\ resp.status_code < 500
    THEN Some([status_code |-> resp.status_code, errors |-> resp.errors])
    ELSE Some([status_code |-> resp.status_code,
               errors |-> <<"Internal server error">>])

(* a variant of process_json that sends the first part only *)
process_json_first(result) ==
    IF IsNone(result) THEN None
    ELSE Some([type |-> "s3_multipart",
               parts |-> [k \in 1..Min(1, Len(Val(result))) |->
                            [part_id |-> Val(result)[k].part_id,
                             etag |-> Val(result)[k].etag]]])
(* The json argument of the POST that process_ingest sends *)
process_json(result) ==
    IF IsNone(result) THEN None
    ELSE Some([type |-> "s3_multipart",
               parts |-> [k \in 1..Len(Val(result)) |->
                            [part_id |-> Val(result)[k].part_id,
                             etag |-> Val(result)[k].etag]]])

(* The states of an ingest, and those that end the polling *)
States == {"created", "uploading", "processing", "completed", "canceled", "failed"}

(* The JSON of an ingest that names no upload: data["state"], with ids *)
StateData(state) ==
    [state |-> state, upload |-> None, upload_url |-> None, ids |-> TRUE]

(* The answers of the service about an ingest that is uploaded: a 2xx with *)
(* the ingest in any state (errors listed when it failed), a 4xx with      *)
(* error messages, a 5xx                                                   *)
IngestAnswers ==
    {[status_code |-> 200,
      errors |-> IF st = "failed" THEN <<"invalid tiles">> ELSE <<>>,
      data |-> Some(StateData(st))] : st \in States}
        \cup [status_code : {400, 422}, errors : {<<"invalid upload result">>},
              data : {None}]
        \cup [status_code : {500}, errors : {<<>>}, data : {None}]

(* The responses of the process endpoint *)
ProcessResponses == IngestAnswers

(* The results process_ingest may be called with: None, or any list of at  *)
(* most MaxParts parts                                                     *)
UploadResults ==
    UNION {[1..n -> [part_id : 1..MaxPartId, etag : ETags]] : n \in 0..MaxParts}

(* process_ingest(ingest_id, upload_result) is called for an ingest whose  *)
(* plan is upload, a plan of the parts 1..n                                *)
ProcessInit ==
    /\ file = FileOf(0) /\ file_size = 0
    /\ GDIdle
    /\ \E n \in 0..MaxParts :
         upload = [part_size |-> 1, parts |-> PlanOf([k \in 1..n |-> k])]
    /\ s3pc = "idle"
    /\ done = 0
    /\ parts = <<>>
    /\ s3request = NoS3Request
    /\ s3response = NoS3Response
    /\ total = 0
    /\ sent = <<>>
    /\ answered = <<>>
    /\ s3exc = ""
    /\ upload_result \in {None} \cup {Some(r) : r \in UploadResults}
    /\ ppc = "call"
    /\ posts = <<>>
    /\ presponse = NoServiceResponse
    /\ perror = None
    /\ IngestIdle

(* response = self.session.post(url, json=json) *)
ProcessPost ==
    /\ UNCHANGED <<fileVars, gdVars, s3Vars, ingestVars, upload_result, presponse, perror>>
    /\ ppc = "call"
    /\ posts' = Append(posts, process_json(upload_result))
    /\ ppc' = "posted"

(* self.check(response) raises ClientError *)
ProcessRejected ==
    /\ UNCHANGED <<fileVars, gdVars, s3Vars, ingestVars, upload_result, posts>>
    /\ ppc = "posted"
    /\ \E r \in ProcessResponses :
        /\ ~IsNone(check(r))
        /\ presponse' = r
        /\ perror' = check(r)
    /\ ppc' = "raised"

(* self.check(response) returns; return self.ingest_response(...) *)
ProcessAccepted ==
    /\ UNCHANGED <<fileVars, gdVars, s3Vars, ingestVars, upload_result, posts, perror>>
    /\ ppc = "posted"
    /\ \E r \in ProcessResponses :
        /\ IsNone(check(r))
        /\ presponse' = r
    /\ ppc' = "returned"

ProcessNext == ProcessPost \/ ProcessRejected \/ ProcessAccepted

SpecProcess == ProcessInit /\ [][ProcessNext]_vars

----------------------------------------------------------------------------
(* Client.ingest_response, Client.create_ingest, Client.ingest and         *)
(* ingest_tiles                                                            *)

(* a variant of Terminal that does not list canceled *)
Terminal_uncanceled == {"completed", "failed"}

(* ingest.state not in {"completed", "canceled", "failed"} *)
Terminal == {"completed", "canceled", "failed"}

(* The states of an ingest that end it *)
FinalStates == {"completed", "canceled", "failed"}

(* 1 for a state that does not end the ingest, else 0 *)
Pending(state) == IF state \in FinalStates THEN 0 ELSE 1

NoUpload == [kind |-> "", url |-> "", part_size |-> 0, parts |-> <<>>]
GoogleDriveUpload(url) == [NoUpload EXCEPT !.kind = "GoogleDriveUpload", !.url = url]
S3Upload(part_size, ps) ==
    [NoUpload EXCEPT !.kind = "S3Upload", !.part_size = part_size, !.parts = ps]

(* data["upload"] of a response of the service *)
UploadJson(type, url, part_size, ps) ==
    [type |-> type, url |-> url, part_size |-> part_size, parts |-> ps]

(* a variant of ingest_response that takes an upload of any other type    *)
(* for a resumable one                                                     *)
ingest_response_lenient(resp) ==
    LET data == Val(resp.data)
        up == IF IsNone(data.upload)
              THEN IF ~IsNone(data.upload_url)
                   THEN Some(GoogleDriveUpload(Val(data.upload_url)))
                   ELSE None
              ELSE IF Val(data.upload).type = "s3_multipart"
              THEN Some(S3Upload(Val(data.upload).part_size, Val(data.upload).parts))
              ELSE Some(GoogleDriveUpload(Val(data.upload).url))
    IN [raised |-> IF ~data.ids THEN "KeyError" ELSE "",
        value |-> [state |-> data.state, upload |-> up, errors |-> resp.errors]]

(* a variant of ingest_response that does not read data["state"] *)
ingest_response_stateless(resp) ==
    LET data == Val(resp.data)
        up == IF IsNone(data.upload)
              THEN IF ~IsNone(data.upload_url)
                   THEN Some(GoogleDriveUpload(Val(data.upload_url)))
                   ELSE None
              ELSE IF Val(data.upload).type = "s3_multipart"
              THEN Some(S3Upload(Val(data.upload).part_size, Val(data.upload).parts))
              ELSE IF Val(data.upload).type = "google_drive_resumable"
              THEN Some(GoogleDriveUpload(Val(data.upload).url))
              ELSE None
        unknown == /\ ~IsNone(data.upload)
                   /\ Val(data.upload).type
                          \notin {"s3_multipart", "google_drive_resumable"}
    IN [raised |-> IF unknown THEN "RuntimeError"
                   ELSE IF ~data.ids THEN "KeyError" ELSE "",
        value |-> [state |-> "created", upload |-> up, errors |-> resp.errors]]

(* Client.ingest_response(data): the IngestResponse, or the exception it   *)
(* raises.  resp.errors is data.get("errors").                             *)
ingest_response(resp) ==
    LET data == Val(resp.data)
        up == IF IsNone(data.upload)
              THEN IF ~IsNone(data.upload_url)
                   THEN Some(GoogleDriveUpload(Val(data.upload_url)))
                   ELSE None
              ELSE IF Val(data.upload).type = "s3_multipart"
              THEN Some(S3Upload(Val(data.upload).part_size, Val(data.upload).parts))
              ELSE IF Val(data.upload).type = "google_drive_resumable"
              THEN Some(GoogleDriveUpload(Val(data.upload).url))
              ELSE None
        unknown == /\ ~IsNone(data.upload)
                   /\ Val(data.upload).type
                          \notin {"s3_multipart", "google_drive_resumable"}
    IN [raised |-> IF unknown THEN "RuntimeError"
                   ELSE IF ~data.ids THEN "KeyError" ELSE "",
        value |-> [state |-> data.state, upload |-> up, errors |-> resp.errors]]

(* a variant of create_ingest_url that ignores the document id *)
create_ingest_url_new(doc) == <<"/v1/tiles/ingest">>

(* create_ingest: the URL of the POST *)
create_ingest_url(doc) ==
    IF IsNone(doc) THEN <<"/v1/tiles/ingest">>
    ELSE <<"/v1/tiles/", Val(doc), "/ingest">>

UploadUrl == "https://upload"

(* The plans of parts the service hands out within ingest_tiles *)
IngestPlans ==
    {PlanOf(ids) : ids \in {<<>>, <<1>>, <<2, 1>>}}

(* The JSON of the answers to create_ingest: the legacy upload_url, a      *)
(* resumable or multipart upload, an upload of a type unknown to the       *)
(* client, no upload at all, and the legacy shape without document_id and  *)
(* state                                                                   *)
CreateData ==
    {[state |-> st, upload |-> up, upload_url |-> None, ids |-> TRUE] :
        st \in {"created", "completed"},
        up \in {None, Some(UploadJson("google_drive_resumable", UploadUrl, 0, <<>>)),
                Some(UploadJson("azure_blob", UploadUrl, 0, <<>>))}
               \cup {Some(UploadJson("s3_multipart", "", 2, ps)) : ps \in IngestPlans}}
        \cup {[state |-> "created", upload |-> None,
               upload_url |-> Some(UploadUrl), ids |-> b] : b \in BOOLEAN}

CreateAnswers ==
    [status_code : {200}, errors : {<<>>}, data : {Some(d) : d \in CreateData}]
        \cup [status_code : {422}, errors : {<<"file too large">>}, data : {None}]
        \cup [status_code : {500}, errors : {<<>>}, data : {None}]

(* The exit code of the process: 0 when ingest_tiles returns, 1 when it    *)
(* raises click.Abort or an exception escapes it                           *)
exit_code(how) == IF how = "returned" THEN 0 ELSE 1

IngestInit ==
    /\ \E n \in 0..MaxFileSize : file = FileOf(n) /\ file_size = n
    /\ GDIdle
    /\ S3Idle
    /\ ProcessIdle
    /\ document_id \in {None, Some("doc")}
    /\ ipc = "start"
    /\ ingest = None
    /\ cresponse = NoServiceResponse
    /\ iresponse = NoServiceResponse
    /\ create_url = None
    /\ delay = 0
    /\ gets = 0
    /\ psleeps = <<>>
    /\ observed = 0
    /\ stderr = <<>>
    /\ cerror = None
    /\ outcome = ""

(* create_ingest: response = self.session.post(url, json=...) *)
CreatePost ==
    /\ UNCHANGED <<fileVars, gdVars, s3Vars, procVars>>
    /\ ipc = "start"
    /\ create_url' = Some(create_ingest_url(document_id))
    /\ ipc' = "create_posted"
    /\ UNCHANGED <<document_id, ingest, cresponse, iresponse, delay, gets, psleeps,
                   observed, stderr, cerror, outcome>>

(* create_ingest raises ClientError: echo the messages, raise click.Abort *)
CreateFailed ==
    /\ UNCHANGED <<fileVars, gdVars, s3Vars, procVars>>
    /\ ipc = "create_posted"
    /\ \E r \in CreateAnswers :
        /\ ~IsNone(check(r))
        /\ cresponse' = r
        /\ cerror' = check(r)
        /\ stderr' = <<"Could not create ingest">> \o Val(check(r)).errors
    /\ outcome' = "Abort"
    /\ ipc' = "exit"
    /\ UNCHANGED <<document_id, ingest, iresponse, create_url, delay, gets, psleeps,
                   observed>>

(* create_ingest: ingest_response raises; nothing catches it *)
CreateRaised ==
    /\ UNCHANGED <<fileVars, gdVars, s3Vars, procVars>>
    /\ ipc = "create_posted"
    /\ \E r \in CreateAnswers :
        /\ IsNone(check(r))
        /\ ingest_response(r).raised # ""
        /\ cresponse' = r
        /\ outcome' = ingest_response(r).raised
    /\ ipc' = "exit"
    /\ UNCHANGED <<document_id, ingest, iresponse, create_url, delay, gets, psleeps,
                   observed, stderr, cerror>>

(* ingest = client.create_ingest(...) *)
Created ==
    /\ UNCHANGED <<fileVars, gdVars, s3Vars, procVars>>
    /\ ipc = "create_posted"
    /\ \E r \in CreateAnswers :
        /\ IsNone(check(r))
        /\ ingest_response(r).raised = ""
        /\ cresponse' = r
        /\ ingest' = Some(ingest_response(r).value)
    /\ ipc' = "upload"
    /\ UNCHANGED <<document_id, iresponse, create_url, delay, gets, psleeps, observed,
                   stderr, cerror, outcome>>

(* isinstance(ingest.upload, S3Upload): upload_to_s3(container, ingest.upload) *)
StartS3 ==
    /\ UNCHANGED <<fileVars, gdVars, procVars>>
    /\ ipc = "upload"
    /\ ~IsNone(Val(ingest).upload)
    /\ Val(Val(ingest).upload).kind = "S3Upload"
    /\ upload' = [part_size |-> Val(Val(ingest).upload).part_size,
                  parts |-> Val(Val(ingest).upload).parts]
    /\ s3pc' = "put"
    /\ UNCHANGED <<done, parts, s3request, s3response, total, sent, answered,
                   s3exc>>
    /\ ipc' = "s3"
    /\ UNCHANGED <<document_id, ingest, cresponse, iresponse, create_url, delay, gets,
                   psleeps, observed, stderr, cerror, outcome>>

(* isinstance(ingest.upload, GoogleDriveUpload): upload_to_google_drive(...) *)
StartGD ==
    /\ UNCHANGED <<fileVars, s3Vars, procVars>>
    /\ ipc = "upload"
    /\ ~IsNone(Val(ingest).upload)
    /\ Val(Val(ingest).upload).kind = "GoogleDriveUpload"
    /\ pc' = "put"
    /\ offset' = Some(0)
    /\ chunk' = Some(ReadAt(file, 0, chunk_size))
    /\ UNCHANGED <<retries, request, response, slept, nput, failures, exc,
                   confirmed>>
    /\ ipc' = "gd"
    /\ UNCHANGED <<document_id, ingest, cresponse, iresponse, create_url, delay, gets,
                   psleeps, observed, stderr, cerror, outcome>>

(* else: raise RuntimeError *)
NoUploadPlan ==
    /\ UNCHANGED <<fileVars, gdVars, s3Vars, procVars>>
    /\ ipc = "upload"
    /\ IsNone(Val(ingest).upload)
    /\ outcome' = "RuntimeError"
    /\ ipc' = "exit"
    /\ UNCHANGED <<document_id, ingest, cresponse, iresponse, create_url, delay, gets,
                   psleeps, observed, stderr, cerror>>

(* the upload function raises; nothing catches it *)
UploadRaised ==
    /\ UNCHANGED <<fileVars, gdVars, s3Vars, procVars>>
    /\ \/ ipc = "gd" /\ pc = "raised" /\ outcome' = exc
       \/ ipc = "s3" /\ s3pc = "raised" /\ outcome' = s3exc
    /\ ipc' = "exit"
    /\ UNCHANGED <<document_id, ingest, cresponse, iresponse, create_url, delay, gets,
                   psleeps, observed, stderr, cerror>>

(* client.process_ingest(ingest.id, upload_result) is called *)
StartProcess ==
    /\ UNCHANGED <<fileVars, gdVars, s3Vars>>
    /\ \/ ipc = "gd" /\ pc = "returned" /\ upload_result' = None
       \/ ipc = "s3" /\ s3pc = "returned" /\ upload_result' = Some(parts)
    /\ ppc' = "call"
    /\ UNCHANGED <<posts, presponse, perror>>
    /\ ipc' = "process"
    /\ UNCHANGED <<document_id, ingest, cresponse, iresponse, create_url, delay, gets,
                   psleeps, observed, stderr, cerror, outcome>>

(* process_ingest raises ClientError: echo the messages, raise click.Abort *)
ProcessAborted ==
    /\ UNCHANGED <<fileVars, gdVars, s3Vars, procVars>>
    /\ ipc = "process"
    /\ ppc = "raised"
    /\ stderr' = <<"Could not start processing">> \o Val(perror).errors
    /\ outcome' = "Abort"
    /\ ipc' = "exit"
    /\ UNCHANGED <<document_id, ingest, cresponse, iresponse, create_url, delay, gets,
                   psleeps, observed, cerror>>

(* ingest = client.process_ingest(...); delay = 5 *)
Processed ==
    /\ UNCHANGED <<fileVars, gdVars, s3Vars, procVars>>
    /\ ipc = "process"
    /\ ppc = "returned"
    /\ ingest' = Some(ingest_response(presponse).value)
    /\ observed' = observed + Pending(Val(presponse.data).state)
    /\ delay' = 5
    /\ ipc' = "loop"
    /\ UNCHANGED <<document_id, cresponse, iresponse, create_url, gets,
                   psleeps, stderr, cerror, outcome>>

(* a variant of next_delay without the ceiling *)
next_delay_uncapped(d) == d + 1

(* the delay after a poll: if delay < 60: delay += 1 *)
next_delay(d) == IF d < 60 THEN d + 1 ELSE d

(* ingest.state not in {...}: sleep(delay); if delay < 60: delay += 1;     *)
(* client.ingest(ingest.id) sends its GET                                  *)
PollGet ==
    /\ UNCHANGED <<fileVars, gdVars, s3Vars, procVars>>
    /\ ipc = "loop"
    /\ Val(ingest).state \notin Terminal
    /\ psleeps' = Append(psleeps, delay)
    /\ delay' = next_delay(delay)
    /\ gets' = gets + 1
    /\ ipc' = "get_sent"
    /\ UNCHANGED <<document_id, ingest, cresponse, iresponse, create_url,
                   observed, stderr, cerror, outcome>>

(* ingest = client.ingest(ingest.id) *)
PollAnswered ==
    /\ UNCHANGED <<fileVars, gdVars, s3Vars, procVars>>
    /\ ipc = "get_sent"
    /\ \E r \in IngestAnswers :
        /\ IsNone(check(r))
        /\ iresponse' = r
        /\ ingest' = Some(ingest_response(r).value)
        /\ observed' = observed + Pending(Val(r.data).state)
    /\ ipc' = "loop"
    /\ UNCHANGED <<document_id, cresponse, create_url, delay, gets, psleeps,
                   stderr, cerror, outcome>>

(* client.ingest raises ClientError; nothing catches it *)
PollFailed ==
    /\ UNCHANGED <<fileVars, gdVars, s3Vars, procVars>>
    /\ ipc = "get_sent"
    /\ \E r \in IngestAnswers :
        /\ ~IsNone(check(r))
        /\ iresponse' = r
        /\ cerror' = check(r)
    /\ outcome' = "ClientError"
    /\ ipc' = "exit"
    /\ UNCHANGED <<document_id, ingest, cresponse, create_url, delay, gets, psleeps,
                   observed, stderr>>

(* a variant of final_outcome that raises click.Abort when canceled too *)
final_outcome_strict(state) ==
    IF state \in {"failed", "canceled"} THEN "Abort" ELSE "returned"

(* How ingest_tiles ends in a terminal state: click.Abort when failed *)
final_outcome(state) == IF state = "failed" THEN "Abort" ELSE "returned"

(* the loop is left: echo the result, raise click.Abort when failed *)
Finish ==
    /\ UNCHANGED <<fileVars, gdVars, s3Vars, procVars>>
    /\ ipc = "loop"
    /\ Val(ingest).state \in Terminal
    /\ stderr' = IF Val(ingest).state = "failed"
                 THEN <<"Failed">> \o Val(ingest).errors ELSE stderr
    /\ outcome' = final_outcome(Val(ingest).state)
    /\ ipc' = "exit"
    /\ UNCHANGED <<document_id, ingest, cresponse, iresponse, create_url, delay, gets,
                   psleeps, observed, cerror>>

(* The uploads and the polling of ingest_tiles, within the bounds *)
IngestPut == nput < IngestMaxPuts /\ Put
IngestPollGet == gets < IngestMaxPolls /\ PollGet

IngestNext ==
    \/ CreatePost \/ CreateFailed \/ CreateRaised \/ Created
    \/ StartS3 \/ StartGD \/ NoUploadPlan \/ UploadRaised
    \/ IngestPut \/ Complete \/ Resume \/ Retry \/ Other
    \/ S3Put \/ S3TransportRetry \/ S3Fail \/ S3Append \/ S3Return
    \/ StartProcess \/ ProcessPost \/ ProcessRejected \/ ProcessAccepted
    \/ ProcessAborted \/ Processed
    \/ IngestPollGet \/ PollAnswered \/ PollFailed \/ Finish

SpecIngest == IngestInit /\ [][IngestNext]_vars

(* upload_to_google_drive and upload_to_s3 on a file that another process  *)
(* may shorten once while the upload runs: file_size keeps the size        *)
(* measured at the start.                                                  *)
ShrinkInit ==
    \/ GDInit
    \/ S3Init /\ upload.parts \in IngestPlans /\ upload.part_size <= ShrinkPartSize

(* the file is truncated to n bytes *)
Truncate ==
    /\ UNCHANGED <<gdVars, s3Vars, procVars, ingestVars>>
    /\ pc \in {"put", "response"} \/ s3pc \in {"put", "response"}
    /\ Len(file) = file_size
    /\ \E n \in 0..(Len(file) - 1) : file' = SubSeq(file, 1, n)
    /\ UNCHANGED file_size

ShrinkPut == nput < ShrinkMaxPuts /\ Put

ShrinkNext ==
    \/ Truncate
    \/ ShrinkPut \/ Complete \/ Resume \/ Retry \/ Other
    \/ S3Put \/ S3TransportRetry \/ S3Fail \/ S3Append \/ S3Return

SpecShrink == ShrinkInit /\ [][ShrinkNext]_vars

(* ingest_tiles for one container without --document-id, with short        *)
(* uploads and a polling loop of up to MaxPolls polls                      *)
PollInit == IngestInit /\ file_size = 1 /\ IsNone(document_id)

PollPut == nput < PollMaxPuts /\ Put
LongPollGet == gets < MaxPolls /\ PollGet

PollNext ==
    \/ CreatePost \/ CreateFailed \/ CreateRaised \/ Created
    \/ StartS3 \/ StartGD \/ NoUploadPlan \/ UploadRaised
    \/ PollPut \/ Complete \/ Resume \/ Retry \/ Other
    \/ S3Put \/ S3TransportRetry \/ S3Fail \/ S3Append \/ S3Return
    \/ StartProcess \/ ProcessPost \/ ProcessRejected \/ ProcessAccepted
    \/ ProcessAborted \/ Processed
    \/ LongPollGet \/ PollAnswered \/ PollFailed \/ Finish

SpecPoll == PollInit /\ [][PollNext]_vars

----------------------------------------------------------------------------
(* Properties of upload_to_google_drive *)

(* The last response was a 308 that the code resumed from *)
Resumed == response.status_code = 308 /\ exc = ""

(* The upper bound of the range the last 308 confirmed *)
ConfirmedUpper == int(group1(Val(response.Range)))

(* The last response was a retryable failure that led to a retry *)
Retried == Retryable(response.status_code) /\ exc = ""

(* C1: after a 308 whose Range header confirms the bytes up to u, the      *)
(* retry counter is 0, the file is re-read from u + 1, and the PUT that    *)
(* follows carries the bytes of the file from u + 1 on, with a             *)
(* Content-Range that starts at u + 1 when it carries any.                 *)
C1_ResumeFromConfirmed ==
    Resumed =>
        /\ retries = 0
        /\ offset = Some(ConfirmedUpper + 1)
        /\ chunk = Some(ReadAt(file, ConfirmedUpper + 1, chunk_size))
        /\ pc = "response" =>
            /\ request.data = Some(ReadAt(file, ConfirmedUpper + 1, chunk_size))
            /\ Len(Val(request.data)) > 0 =>
                /\ request.ContentRange.first = ConfirmedUpper + 1
                /\ Val(request.data)[1] = file[ConfirmedUpper + 2]

(* a 308 arrived after two backoff sleeps in a row, and the PUT after it   *)
(* carries data                                                            *)
C1_Witness ==
    /\ Resumed /\ pc = "response"
    /\ Len(slept) >= 2 /\ slept[Len(slept)] = 2
    /\ ConfirmedUpper = 0
    /\ Len(Val(request.data)) > 0

(* C2 as stated: the PUT after a retryable failure that led to a retry     *)
(* carries the chunk re-read at the last confirmed offset, with that       *)
(* chunk's Content-Range.                                                  *)
C2_RetrySendsSameChunk ==
    (Retried /\ pc = "response") =>
        /\ request.data = Some(ReadAt(file, confirmed, chunk_size))
        /\ request.ContentRange =
               ContentRange(Some(confirmed), request.data, file_size)

(* C2 amended: after a retryable failure that led to a retry both offset   *)
(* and chunk are None, and the PUT that follows carries no data and the    *)
(* Content-Range bytes * / file_size: it asks the server for its state.    *)
C2_RetrySendsProbe ==
    Retried =>
        /\ offset = None /\ chunk = None
        /\ pc = "response" =>
            /\ request.data = None
            /\ request.ContentRange = [form |-> "bytes */{}", total |-> file_size]

(* the probe was sent after a failure of a PUT that carried data *)
C2_Witness ==
    /\ Retried /\ pc = "response" /\ nput = 2 /\ file_size = 3
    /\ request.data = None

(* C3 as stated: the n-th retryable failure without progress in between    *)
(* sleeps 2^n seconds, and two failures followed by a success sleep 2 s    *)
(* and 4 s.                                                                *)
C3_DelayTwoToTheN ==
    /\ (Retried /\ pc = "put") => slept[Len(slept)] = 2 ^ failures
    /\ (pc = "returned" /\ nput = 3 /\ failures = 2) => slept = <<2, 4>>

(* C3 amended: the n-th retryable failure since the start or the last 308  *)
(* sleeps 2^(n-1) seconds: 1, 2, 4, ...; two failures followed by a        *)
(* success sleep 1 s and then 2 s, and the upload returns.                 *)
C3_DelayTwoToTheNMinusOne ==
    /\ (Retried /\ pc = "put") => slept[Len(slept)] = 2 ^ (failures - 1)
    /\ (pc = "returned" /\ nput = 3 /\ failures = 2) => slept = <<1, 2>>

(* 403, 403, 200 *)
C3_Witness ==
    /\ pc = "returned" /\ nput = 3 /\ failures = 2
    /\ response.status_code = 200 /\ Len(slept) = 2

(* C4: a retryable failure (403 or any status >= 500) leads to a sleep and *)
(* a retry only while the retry counter is at most 5; the failure that     *)
(* finds it above 5 ends the upload with an error.                         *)
C4_RetriesBounded ==
    /\ (Retried /\ pc = "put") => retries <= 6
    /\ (Retryable(response.status_code) /\ failures > 6) => pc = "raised"

(* C5: a response whose status is none of 200, 201, 308, 403 and >= 500    *)
(* ends the upload with an error.                                          *)
C5_OtherStatusFails ==
    (/\ nput > 0
     /\ response.status_code \notin {0, 200, 201, 308}
     /\ ~Retryable(response.status_code)) => pc = "raised"

(* C6: a PUT that carries len > 0 bytes read at offset has the             *)
(* Content-Range bytes offset-(offset+len-1)/file_size with len at most    *)
(* chunk_size, and a PUT sent when no bytes remain at the current offset   *)
(* has the Content-Range bytes * / file_size.                              *)
C6_ContentRange ==
    nput > 0 =>
        IF ~IsNone(request.data) /\ Len(Val(request.data)) > 0
        THEN /\ Len(Val(request.data)) <= chunk_size
             /\ \E o \in 0..file_size :
                 /\ Val(request.data) =
                        SubSeq(file, o + 1, o + Len(Val(request.data)))
                 /\ request.ContentRange =
                        [form |-> "bytes {}-{}/{}", first |-> o,
                         last |-> o + Len(Val(request.data)) - 1,
                         total |-> file_size]
        ELSE request.ContentRange = [form |-> "bytes */{}", total |-> file_size]

----------------------------------------------------------------------------
(* Properties of upload_to_s3 *)

PartSize == upload.part_size

(* ceil(file_size / part_size) *)
NumParts == (file_size + PartSize - 1) \div PartSize

PlanIds == {upload.parts[k].part_id : k \in 1..Len(upload.parts)}

(* The plan holds the parts 1..ceil(S/P), each once, in any order *)
PlanComplete == Len(upload.parts) = NumParts /\ PlanIds = 1..NumParts

(* The offsets of the bytes the k-th PUT carried *)
SentRange(k) == sent[k].lower..(sent[k].lower + Len(sent[k].body) - 1)

(* C7: with a plan of the parts 1..ceil(S/P), part i is sent the bytes     *)
(* [(i-1)*P, min(i*P, S)) of the file with Content-Length the length of    *)
(* that range, no two parts share a byte, and when upload_to_s3 returns    *)
(* the parts sent cover [0, S).                                            *)
C7_PartsTileFile ==
    PlanComplete =>
        /\ \A k \in 1..Len(sent) :
            LET i == sent[k].part_id
                lo == (i - 1) * PartSize
                hi == Min(i * PartSize, file_size)
            IN /\ sent[k].lower = lo
               /\ sent[k].body = SubSeq(file, lo + 1, hi)
               /\ sent[k].ContentLength = str(hi - lo)
        /\ \A j, k \in 1..Len(sent) :
            j # k => SentRange(j) \cap SentRange(k) = {}
        /\ s3pc = "returned" =>
            UNION {SentRange(k) : k \in 1..Len(sent)} = 0..(file_size - 1)

(* three bytes in parts of two, the plan listing part 2 first *)
C7_Witness ==
    /\ s3pc = "returned" /\ PlanComplete
    /\ file_size = 3 /\ PartSize = 2
    /\ upload.parts[1].part_id = 2
    /\ Len(sent) = 2 /\ sent[2].body = <<3>>

(* the number of entries of ps with part id i *)
Count(ps, i) == Cardinality({k \in 1..Len(ps) : ps[k].part_id = i})

(* C8: when upload_to_s3 returns, its result has one entry per part of the *)
(* plan (each part id as often as the plan has it), in ascending part_id   *)
(* order, and the etag of each entry is the ETag header of the response to *)
(* the PUT to that part's url.                                             *)
C8_ResultMatchesPlan ==
    s3pc = "returned" =>
        /\ Len(parts) = Len(upload.parts)
        /\ \A i \in 1..MaxPartId : Count(parts, i) = Count(upload.parts, i)
        /\ \A j, k \in 1..Len(parts) :
            j < k => parts[j].part_id <= parts[k].part_id
        /\ Len(answered) = Len(parts)
        /\ \A k \in 1..Len(parts) :
            /\ upload.parts[answered[k].url].part_id = parts[k].part_id
            /\ answered[k].ETag = Some(parts[k].etag)

(* a plan listing part 3 first, and parts answered with different ETags *)
C8_Witness ==
    /\ s3pc = "returned" /\ Len(parts) = 3
    /\ upload.parts[1].part_id = 3
    /\ parts[1].etag # parts[2].etag

(* The statuses the resumable upload retries *)
RetriedByResumable(status) == status = 403 \/ status >= 500

----------------------------------------------------------------------------
(* Properties of Client.process_ingest *)

(* The part ids of the outcome are exactly those of the plan: none         *)
(* missing, none twice, none foreign                                       *)
OutcomeMatchesPlan ==
    /\ ~IsNone(upload_result)
    /\ \A i \in 1..MaxPartId :
         Count(Val(upload_result), i) = Count(upload.parts, i)

(* C10 as stated: an outcome whose part ids are not exactly the plan's is  *)
(* rejected before any network call: no POST to the process endpoint is    *)
(* sent.                                                                   *)
C10_MismatchNeverPosted ==
    ~OutcomeMatchesPlan => posts = <<>>

(* C10 amended: process_ingest checks no part id.  For every outcome,      *)
(* matching the plan or not, it sends one POST to the process endpoint     *)
(* that carries the parts of the outcome as given (same part_id and etag,  *)
(* same order, duplicates kept), and no body for None; it raises           *)
(* ClientError exactly when the response to that POST is not ok.           *)
C10_OutcomePostedAsGiven ==
    ppc \in {"posted", "returned", "raised"} =>
        /\ Len(posts) = 1
        /\ IsNone(upload_result) <=> IsNone(posts[1])
        /\ ~IsNone(upload_result) =>
            /\ Val(posts[1]).type = "s3_multipart"
            /\ Val(posts[1]).parts = Val(upload_result)
        /\ ppc = "raised" =>
            /\ presponse.status_code >= 400
            /\ perror # None /\ Val(perror).status_code = presponse.status_code
        /\ ppc = "returned" => presponse.status_code < 400

(* an outcome that names part 1 twice, for a plan of parts 1 and 2, is     *)
(* posted and accepted                                                     *)
C10_Witness ==
    /\ ppc = "returned" /\ Len(posts) = 1
    /\ Len(upload.parts) = 2
    /\ ~IsNone(upload_result) /\ Len(Val(upload_result)) = 2
    /\ Val(upload_result)[1].part_id = 1 /\ Val(upload_result)[2].part_id = 1
    /\ ~OutcomeMatchesPlan

----------------------------------------------------------------------------
(* Properties of ingest_tiles *)

(* create_ingest returned an IngestResponse *)
CreateSucceeded == ok(cresponse.status_code) /\ ~IsNone(ingest)

(* create_ingest raised ClientError *)
CreateClientError == cresponse.status_code >= 400

(* The upload function returned normally: the whole stream was accepted,   *)
(* or every part of the plan was                                           *)
UploadReturned ==
    \/ pc = "returned" /\ response.status_code \in {200, 201}
    \/ s3pc = "returned" /\ Len(parts) = Len(upload.parts)

(* C11: the steps of ingest_tiles are ordered create, upload, finalize,    *)
(* poll.  An upload PUT is sent only after create_ingest has succeeded;    *)
(* process_ingest posts at most once, and only after the upload function   *)
(* returned normally; a status GET is sent only after process_ingest has   *)
(* succeeded.  When create_ingest raises ClientError, the error carries    *)
(* the status of the response and its messages, the messages are echoed    *)
(* after "Could not create ingest", the run aborts, and no upload PUT, no  *)
(* process call and no status GET is made.                                 *)
C11_StepsOrdered ==
    /\ (nput > 0 \/ Len(sent) > 0) => CreateSucceeded
    /\ Len(posts) <= 1
    /\ (ppc # "idle" \/ Len(posts) > 0) => (CreateSucceeded /\ UploadReturned)
    /\ gets > 0 =>
        /\ ppc = "returned" /\ Len(posts) = 1 /\ ok(presponse.status_code)
        /\ UploadReturned
    /\ CreateClientError =>
        /\ ipc = "exit" /\ outcome = "Abort"
        /\ ~IsNone(cerror)
        /\ Val(cerror).status_code = cresponse.status_code
        /\ cresponse.status_code < 500 => Val(cerror).errors = cresponse.errors
        /\ stderr = <<"Could not create ingest">> \o Val(cerror).errors
        /\ nput = 0 /\ sent = <<>>
        /\ ppc = "idle" /\ posts = <<>>
        /\ gets = 0

(* create answered 422 with a message, and the run has ended *)
C11_Witness ==
    /\ ipc = "exit" /\ cresponse.status_code = 422
    /\ stderr = <<"Could not create ingest", "file too large">>

(* a run went through all four steps: two parts put, one process call,    *)
(* two polls                                                              *)
C11_FullRun ==
    /\ ipc = "exit" /\ outcome = "returned"
    /\ Len(sent) = 2 /\ Len(posts) = 1 /\ gets = 2

(* ingest_tiles left its polling loop with the ingest in the given state *)
EndedIn(state) ==
    /\ ipc = "exit" /\ ppc = "returned" /\ IsNone(cerror)
    /\ Val(ingest).state = state

(* A call of the service raised ClientError and the run has ended *)
EndedByClientError ==
    ipc = "exit" /\ (~IsNone(cerror) \/ ~IsNone(perror))

(* C12 as stated: the exit code is 0 when the final state is completed,    *)
(* and nonzero when it is failed, when it is canceled, and when create,    *)
(* process or a status poll raised ClientError.                            *)
C12_ExitCode ==
    /\ EndedIn("completed") => exit_code(outcome) = 0
    /\ EndedIn("failed") => exit_code(outcome) # 0
    /\ EndedIn("canceled") => exit_code(outcome) # 0
    /\ EndedByClientError => exit_code(outcome) # 0

(* C12 amended: the exit code is 0 when the final state is completed and   *)
(* also when it is canceled (ingest_tiles echoes "Canceled" and returns);  *)
(* it is nonzero when the final state is failed and when create, process   *)
(* or a status poll raised ClientError.                                    *)
C12_ExitCodeCanceledZero ==
    /\ EndedIn("completed") => exit_code(outcome) = 0
    /\ EndedIn("canceled") => exit_code(outcome) = 0
    /\ EndedIn("failed") => exit_code(outcome) # 0
    /\ EndedByClientError => exit_code(outcome) # 0

(* a poll reported the ingest canceled and the run ended with exit code 0 *)
C12_Witness ==
    /\ EndedIn("canceled") /\ gets > 0
    /\ exit_code(outcome) = 0

(* The create response had the legacy shape: upload_url and no upload *)
LegacyCreate ==
    /\ CreateSucceeded
    /\ IsNone(Val(cresponse.data).upload)
    /\ Val(cresponse.data).upload_url = Some(UploadUrl)

SleepBeforePoll(k) == Min(5 + (k - 1), 60)

(* C14: the k-th status poll is preceded by a sleep of min(5 + (k-1), 60)  *)
(* seconds, one sleep per poll; a poll is sent only while the held state   *)
(* is none of completed, canceled, failed, and the loop is left only in    *)
(* one of these states.                                                    *)
C14_PollDelays ==
    /\ Len(psleeps) = gets
    /\ \A k \in 1..Len(psleeps) : psleeps[k] = SleepBeforePoll(k)
    /\ ipc = "get_sent" => Val(ingest).state \notin FinalStates
    /\ (ipc = "exit" /\ ppc = "returned" /\ IsNone(cerror))
           => Val(ingest).state \in FinalStates

(* the run ended after MaxPolls polls, the last sleeps at the ceiling *)
C14_Witness ==
    /\ ipc = "exit" /\ outcome = "returned"
    /\ gets = MaxPolls /\ Len(psleeps) = MaxPolls
    /\ psleeps[1] = 5 /\ psleeps[56] = 60 /\ psleeps[MaxPolls] = 60

(* The create response carries an upload of a type the client does not know *)
UnknownPlan ==
    /\ ok(cresponse.status_code) /\ ~IsNone(cresponse.data)
    /\ ~IsNone(Val(cresponse.data).upload)
    /\ Val(Val(cresponse.data).upload).type
           \notin {"s3_multipart", "google_drive_resumable"}

(* The create response carries neither upload nor upload_url *)
NoPlan ==
    /\ ok(cresponse.status_code) /\ ~IsNone(cresponse.data)
    /\ IsNone(Val(cresponse.data).upload)
    /\ IsNone(Val(cresponse.data).upload_url)

(* C15: when the create response carries an upload of an unknown type or   *)
(* no upload at all, the run ends with a RuntimeError and a nonzero exit   *)
(* code; no upload PUT is sent and process_ingest is not called.           *)
C15_NoPlanFails ==
    (UnknownPlan \/ NoPlan) =>
        /\ nput = 0 /\ sent = <<>> /\ pc = "idle" /\ s3pc = "idle"
        /\ ppc = "idle" /\ posts = <<>>
        /\ gets = 0
        /\ UnknownPlan => ipc = "exit"
        /\ ipc \in {"upload", "exit"}
        /\ ipc = "exit" =>
               (outcome = "RuntimeError" /\ exit_code(outcome) # 0)

(* create answered with an upload of type azure_blob and the run has ended *)
C15_Witness ==
    /\ UnknownPlan /\ ipc = "exit" /\ outcome = "RuntimeError"
    /\ Val(Val(cresponse.data).upload).type = "azure_blob"

(* create answered without any upload and the run has ended *)
C15_NoPlanEnded ==
    NoPlan /\ ipc = "exit" /\ outcome = "RuntimeError"

(* The place of a state along created, uploading, processing, end *)
Rank(state) ==
    CASE state = "created" -> 1
      [] state = "uploading" -> 2
      [] state = "processing" -> 3
      [] OTHER -> 4

(* C18 as stated: over the responses of one run the held state never goes  *)
(* backward along created, uploading, processing, {completed, canceled,    *)
(* failed}, and once it is completed, canceled or failed it never changes. *)
C18_StateOnlyForward ==
    [][~IsNone(ingest) =>
         /\ Rank(Val(ingest').state) >= Rank(Val(ingest).state)
         /\ Val(ingest).state \in FinalStates
                => Val(ingest').state = Val(ingest).state]_vars

(* C18 amended: the held state is the state of the latest response of the  *)
(* service (create_ingest, then process_ingest, then each status poll),    *)
(* whatever the state held before, so it goes backward when the service    *)
(* reports an earlier state; once process_ingest or a status poll has      *)
(* returned completed, canceled or failed, no further request is sent and  *)
(* the held state never changes again.                                     *)
C18_StateFollowsResponse ==
    [][/\ ingest' # ingest =>
            /\ ipc \in {"create_posted", "process", "get_sent"}
            /\ ipc = "create_posted" =>
                   Val(ingest').state = Val(cresponse'.data).state
            /\ ipc = "process" =>
                   Val(ingest').state = Val(presponse.data).state
            /\ ipc = "get_sent" =>
                   Val(ingest').state = Val(iresponse'.data).state
       /\ (ipc \in {"loop", "get_sent", "exit"}
              /\ Val(ingest).state \in FinalStates)
            => (ingest' = ingest /\ gets' = gets /\ posts' = posts)]_vars

(* create reported the ingest completed, and the state held in the polling *)
(* loop is created after a poll                                            *)
C18_Witness ==
    /\ ipc = "loop" /\ gets = 1
    /\ Val(cresponse.data).state = "completed"
    /\ Val(presponse.data).state = "processing"
    /\ Val(ingest).state = "created"

(* C19: when the state returned by process_ingest or by a status poll is   *)
(* completed, canceled or failed, no further status GET is sent and no     *)
(* further sleep is made; the number of status GETs equals the number of   *)
(* states returned by process_ingest and the polls that were none of       *)
(* these three (less the one the loop has not acted on yet).               *)
C19_PollsCountPending ==
    /\ Len(psleeps) = gets
    /\ ipc = "loop" =>
           (gets = observed \/
               (gets + 1 = observed /\ Val(ingest).state \notin FinalStates))
    /\ ipc = "loop" /\ Val(ingest).state \in FinalStates => gets = observed
    /\ ipc = "get_sent" => gets = observed
    /\ (ipc = "exit" /\ ppc = "returned") => gets = observed
    /\ ipc \in {"start", "create_posted", "upload", "gd", "s3", "process"}
           => (gets = 0 /\ observed = 0)

(* process_ingest returned processing, the first poll uploading, the       *)
(* second poll failed: two GETs, two sleeps, and the run has ended         *)
C19_Witness ==
    /\ EndedIn("failed") /\ outcome = "Abort"
    /\ Val(presponse.data).state = "processing"
    /\ gets = 2 /\ observed = 2 /\ psleeps = <<5, 6>>

(* process_ingest returned completed: no GET, no sleep *)
C19_TerminalAtOnce ==
    /\ EndedIn("completed") /\ Val(presponse.data).state = "completed"
    /\ gets = 0 /\ psleeps = <<>>

----------------------------------------------------------------------------
(* Further properties of the uploads *)

(* C16 as stated: the retry counter of upload_to_google_drive goes back    *)
(* to 0, with the upload going on, only on a response that advances the    *)
(* confirmed offset.                                                       *)
C16_ResetOnlyOnProgress ==
    [][(retries' < retries /\ pc' = "put") => confirmed' > confirmed]_vars

(* The read generator yields empty chunks without end *)
ReadLoops == s3pc = "hang"

(* The last 308 confirmed a range whose end + 1 is beyond the file size *)
SeekPastEnd ==
    /\ response.status_code = 308
    /\ ~IsNone(response.Range) /\ fullmatch(Val(response.Range))
    /\ ConfirmedUpper + 1 > file_size

(* the half of C17 about upload_to_s3: the read generator never loops on a *)
(* file that ended early                                                   *)
ShortReadRaises == ~ReadLoops

(* the half of C17 about upload_to_google_drive: a resume at an offset     *)
(* past the end of the file raises                                         *)
SeekPastEndRaises == SeekPastEnd => pc = "raised"

(* C17 as stated: reading a byte range fails with an IO error, rather than *)
(* looping or sending a request, when the file is shorter than the size    *)
(* measured at the start (upload_to_s3) or when the offset to seek to is   *)
(* beyond the file size (upload_to_google_drive).                          *)
C17_ShortFileRaises == ShortReadRaises /\ SeekPastEndRaises

(* text has the form bytes=<digits>-<digits> *)
ExactRange(text) ==
    \E k \in 1..Len(text) :
        /\ 7 < k /\ k < Len(text)
        /\ text[k] = "-"
        /\ \A i \in 1..6 : text[i] = BytesEq[i]
        /\ \A i \in 7..Len(text) :
               i # k => text[i] \in {"0", "1", "2", "3", "4", "5", "6", "7", "8", "9"}

(* C20: a 308 without a Range header, or with one that is not of the form  *)
(* bytes=<digits>-<digits>, ends upload_to_google_drive with an exception  *)
(* (KeyError without the header, AttributeError otherwise): offset and     *)
(* chunk are left as they were and no further PUT is sent; a 308 with a    *)
(* header of that form is resumed from.                                    *)
C20_MalformedRangeAborts ==
    [][response'.status_code = 308 =>
         IF IsNone(response'.Range) \/ ~ExactRange(Val(response'.Range))
         THEN /\ pc' = "raised"
              /\ exc' = IF IsNone(response'.Range)
                        THEN "KeyError" ELSE "AttributeError"
              /\ offset' = offset /\ chunk' = chunk /\ nput' = nput
              /\ ~ENABLED Put
         ELSE pc' # "raised"]_vars

(* the first chunk failed, the probe that followed was answered by a 308   *)
(* without Range, and the upload ended with KeyError                       *)
C20_Witness ==
    /\ pc = "raised" /\ exc = "KeyError"
    /\ response.status_code = 308 /\ IsNone(response.Range)
    /\ nput = 2 /\ slept = <<1>> /\ IsNone(offset)

(* a 308 whose Range is bytes=0- ended the upload with AttributeError *)
C20_NoUpperBound ==
    /\ pc = "raised" /\ exc = "AttributeError"
    /\ response.Range = Some(BytesEq \o <<"0", "-">>)

====
